---------------------------- MODULE Spec2Model ----------------------------
(***************************************************************************)
(* examples/esmif.ipynb: a notebook of three code cells run top to bottom.  *)
(*   cell 1  imports, device selection, pretrained-model loading,           *)
(*           esmif_model.eval().to(device)                                  *)
(*   cell 2  pdb_path, target_seq_list, one score_complex call, the cell's  *)
(*           output expression                                              *)
(*   cell 3  comments only (a sampling loop that is commented out)          *)
(* Spec is the notebook as it stands.  SampleSpec is cell 3 with its        *)
(* comment marks removed, run after cell 2, for the arithmetic of the loop. *)
(* External calls are split into a call step and a return-or-raise step;    *)
(* what an external call returns or raises is a nondeterministic choice.    *)
(***************************************************************************)
EXTENDS Integers, Sequences, FiniteSets, TLC

VARIABLES
    pc,               \* the statement about to run, or "done" / "error"
    active,           \* external calls in progress
    trace,            \* history: call / return / raise events of external calls
                      \* (the calls of the sampling loop are kept in sampled)
    cuda_available,   \* environment: what torch.cuda.is_available() answers
    sys_path,         \* entries appended to sys.path
    device,
    esmif_model,
    esmif_alphabet,
    loaded,           \* history: the pair the pretrained-model loader returned
    pdb_path,
    target_seq_list,
    output_path,
    redisigned_residues,
    batch_num,
    entropy,
    loss,
    perplexity,
    out,              \* the displayed value of cell 2's last expression
    error,            \* the exception that ended the run
    files_written,    \* paths written during the run
    pdb_version,      \* content version of each structure file
    sampled           \* history: <<index_offset, batch_size>> of each sample_complex call

vars == <<pc, active, trace, cuda_available, sys_path, device, esmif_model,
          esmif_alphabet, loaded, pdb_path, target_seq_list, output_path,
          redisigned_residues, batch_num, entropy, loss, perplexity, out,
          error, files_written, pdb_version, sampled>>

\* ---------------------------------------------------------------- bounds
NumCheckpoints == 2      \* distinct weight sets the loader may hand back
NumAlphabets == 2        \* distinct alphabet objects the loader may hand back
NumScalars == 2          \* distinct values of a returned scalar
NumTensors == 2          \* distinct contents of a returned tensor

\* ------------------------------------------------------- program constants
NumBatches == 2048
BatchSize == 32
OffsetStride == 32

\* an unbound name holds None; a bound one holds Some(value)
None == <<>>
Some(v) == <<v>>
Val(x) == x[1]

PDB_PATH == "../pdbs/NbALFA_ALFAtag_AF3.pdb"
PDB_PATH_3 == "../pdbs/NbALFA_AF3.pdb"
OUTPUT_PATH == "../results/sampled_monomer_esm.fasta"
REDISIGNED_RESIDUES == "1 3 4 5 7 8 9 13 14 15 19 20 21 23 24 25 26 27 39 41 44 45 46 48 50 52 53 67 68 69 72 73 74 75 76 77 78 79 80 81 82 83 84 85 86 88 89 91 92 93 95 97 99 100 102 114 116 118 119 120 121 123 124"

TARGET_SEQ_LIST_NoRepeat ==
    << "SGEVQLQESGGGLVQPGGSLRLSCTASGVTISALNAMAMGWYRQAPGERRVMVAAVSERGNAMYRESVQGRFTVTRDFTNKMVSLQMDNLKPEDTAVYYCHVLEDRVDSFHDYWGQGTQVTVSS",
       "KGQVQLQQSAELALARMSCKASYTFTSQAPGKGLEWVSAITWNELARPGASVKMSGHIDYADSVKGRFSGHIDYADSVKGRFTIPGASVKMSGTEKMSCTAVYYCAKYPGQVQLQQSAELAASS",
       "ARPGASVNELARPGASVKMSGHIDYAKMSCKASGYTFTSQAPGLEWVSAITWNELKASGYFTSQAPLQMLYLAVYYCAKPYYGSHVWGAVSAITWGVQLYAVAKYSRDNSKNTTVTVGTTVTVS",
       "PGLRAEDTAVYYCAKYPYELARPGYTFTSQAPGKGLGSHWYFDVWWYFDLYQMNSLRATIRDNSKNTWVSEVWGAGTASKMSCKASGGSVKMEDTAVYYCAKYPYYGSHGAGTDNSKNTVVTVS",
       "ASVRPGLYLQMNSGQVQLQQSALQQSAELYYGSHWYFDVWGAGTTVHIDYADSVKGRFTISRDNSKNTLYLQMNSLRAEDTDVWGAGTTVTEWVNSLRAEDARPGASVKMSGTDSVKGRFTISS",
       "SGTVQLTESGGGTVAPGGSLTLSAKATGVTISALNAMAWGWYRQRPGERRVAVAAVSERGNAMYREDVRGRWTITRDAANKTVSLEMRDLRPEDTATYYPHVLEDRVDSFHDYWGAGVPVTVVP",
       "IGPVQLVESGGGKVEPGGSLTLEMEAKGVTISALNAMAMGWYRQRPGERRVMVAAVSERGNAMYREDVRGRFRVTKNQRDRRVSLKMNNLKPEDSATYFAHVLEDRVDSFHDYWGKGSVVSVRP" >>

TARGET_SEQ_LIST ==
    << "SGEVQLQESGGGLVQPGGSLRLSCTASGVTISALNAMAMGWYRQAPGERRVMVAAVSERGNAMYRESVQGRFTVTRDFTNKMVSLQMDNLKPEDTAVYYCHVLEDRVDSFHDYWGQGTQVTVSS",
       "KGQVQLQQSAELALARMSCKASYTFTSQAPGKGLEWVSAITWNELARPGASVKMSGHIDYADSVKGRFSGHIDYADSVKGRFTIPGASVKMSGTEKMSCTAVYYCAKYPGQVQLQQSAELAASS",
       "ARPGASVNELARPGASVKMSGHIDYAKMSCKASGYTFTSQAPGLEWVSAITWNELKASGYFTSQAPLQMLYLAVYYCAKPYYGSHVWGAVSAITWGVQLYAVAKYSRDNSKNTTVTVGTTVTVS",
       "PGLRAEDTAVYYCAKYPYELARPGYTFTSQAPGKGLGSHWYFDVWWYFDLYQMNSLRATIRDNSKNTWVSEVWGAGTASKMSCKASGGSVKMEDTAVYYCAKYPYYGSHGAGTDNSKNTVVTVS",
       "ASVRPGLYLQMNSGQVQLQQSALQQSAELYYGSHWYFDVWGAGTTVHIDYADSVKGRFTISRDNSKNTLYLQMNSLRAEDTDVWGAGTTVTEWVNSLRAEDARPGASVKMSGTDSVKGRFTISS",
       "SGEVQLQESGGGLVQPGGSLRLSCTASGVTISALNAMAMGWYRQAPGERRVMVAAVSERGNAMYRESVQGRFTVTRDFTNKMVSLQMDNLKPEDTAVYYCHVLEDRVDSFHDYWGQGTQVTVSS",
       "SGTVQLTESGGGTVAPGGSLTLSAKATGVTISALNAMAWGWYRQRPGERRVAVAAVSERGNAMYREDVRGRWTITRDAANKTVSLEMRDLRPEDTATYYPHVLEDRVDSFHDYWGAGVPVTVVP",
       "IGPVQLVESGGGKVEPGGSLTLEMEAKGVTISALNAMAMGWYRQRPGERRVMVAAVSERGNAMYREDVRGRFRVTKNQRDRRVSLKMNNLKPEDSATYFAHVLEDRVDSFHDYWGKGSVVSVRP" >>

\* names of the external callables
LOADER == "esm_if1_gvp4_t16_142M_UR50"
TO == "to"
SCORE == "score_complex"
SAMPLE == "sample_complex"

\* what the external steps may raise
ImportErrors == {"ModuleNotFoundError", "ImportError"}
LoadErrors == {"HTTPError", "RuntimeError"}
ToErrors == {"RuntimeError", "AssertionError"}
ScoreErrors == {"FileNotFoundError", "RuntimeError", "KeyError"}
SampleErrors == {"FileNotFoundError", "RuntimeError"}

Weights == 1..NumCheckpoints
Alphabets == 1..NumAlphabets
Scalars == 1..NumScalars
TensorData == 1..NumTensors

\* ------------------------------------------------------------- helpers
CallEvent(fn, args) == [ev |-> "call", fn |-> fn, args |-> args]
ReturnEvent(fn) == [ev |-> "return", fn |-> fn]
RaiseEvent(fn, exc) == [ev |-> "raise", fn |-> fn, exc |-> exc]

\* An exception no try/except catches: it ends the run and is shown as is.
Propagate(fn, exc) ==
    /\ pc' = "error"
    /\ error' = Some([step |-> fn, exc |-> exc])
    /\ active' = active \ {fn}
    /\ trace' = Append(trace, RaiseEvent(fn, exc))

Init ==
    /\ pc = "imports"
    /\ active = {}
    /\ trace = <<>>
    /\ cuda_available \in BOOLEAN
    /\ sys_path = <<>>
    /\ device = None
    /\ esmif_model = None
    /\ esmif_alphabet = None
    /\ loaded = None
    /\ pdb_path = None
    /\ target_seq_list = None
    /\ output_path = None
    /\ redisigned_residues = None
    /\ batch_num = None
    /\ entropy = None
    /\ loss = None
    /\ perplexity = None
    /\ out = None
    /\ error = None
    /\ files_written = {}
    /\ pdb_version = [p \in {PDB_PATH, PDB_PATH_3} |-> 0]
    /\ sampled = <<>>

\* ------------------------------------------------------------- cell 1
\* lines 9-24: sys.path.append("..") and the imports; an import may fail
\* only after line 12 has run.
Imports ==
    /\ pc = "imports"
    /\ sys_path' = Append(sys_path, "..")
    /\ \/ /\ pc' = "device"
          /\ UNCHANGED <<active, trace, error>>
       \/ \E e \in ImportErrors :
             /\ pc' = "error"
             /\ error' = Some([step |-> "import", exc |-> e])
             /\ UNCHANGED <<active, trace>>
    /\ UNCHANGED <<cuda_available, device, esmif_model, esmif_alphabet, loaded,
                   pdb_path, target_seq_list, output_path, redisigned_residues,
                   batch_num, entropy, loss, perplexity, out, files_written,
                   pdb_version, sampled>>

DeviceForInverted(avail) == IF avail THEN "cpu" ELSE "cuda"

\* line 26: "cuda" if torch.cuda.is_available() else "cpu"
DeviceFor(avail) == IF avail THEN "cuda" ELSE "cpu"

SelectDevice ==
    /\ pc = "device"
    /\ device' = Some(DeviceFor(cuda_available))
    /\ pc' = "load"
    /\ UNCHANGED <<active, trace, cuda_available, sys_path, esmif_model,
                   esmif_alphabet, loaded, pdb_path, target_seq_list,
                   output_path, redisigned_residues, batch_num, entropy, loss,
                   perplexity, out, error, files_written, pdb_version, sampled>>

\* The frame of a step that only starts, or only fails, an external call.
CallFrame ==
    UNCHANGED <<cuda_available, sys_path, device, esmif_model, esmif_alphabet,
                loaded, pdb_path, target_seq_list, output_path,
                redisigned_residues, batch_num, entropy, loss, perplexity, out,
                files_written, pdb_version, sampled>>

LoadCallNoWait ==
    /\ pc = "load"
    /\ pc' = "eval"
    /\ active' = active \cup {LOADER}
    /\ trace' = Append(trace, CallEvent(LOADER, <<>>))
    /\ UNCHANGED error
    /\ esmif_model' = Some([weights |-> 1, training |-> TRUE, device |-> "cpu"])
    /\ esmif_alphabet' = Some(1)
    /\ loaded' = Some([model |-> Val(esmif_model'), alphabet |-> 1])
    /\ UNCHANGED <<cuda_available, sys_path, device, pdb_path, target_seq_list,
                   output_path, redisigned_residues, batch_num, entropy, loss,
                   perplexity, out, files_written, pdb_version, sampled>>

\* line 28: esm.pretrained.esm_if1_gvp4_t16_142M_UR50() is entered
LoadCall ==
    /\ pc = "load"
    /\ pc' = "load_wait"
    /\ active' = active \cup {LOADER}
    /\ trace' = Append(trace, CallEvent(LOADER, <<>>))
    /\ UNCHANGED error
    /\ CallFrame

\* line 28: the loader returns (model, alphabet), bound to esmif_model and
\* esmif_alphabet.  Which weights, mode and alphabet come back is the
\* library's business.
LoadReturn ==
    /\ pc = "load_wait"
    /\ \E w \in Weights, t \in BOOLEAN, a \in Alphabets :
         LET m == [weights |-> w, training |-> t, device |-> "cpu"] IN
         /\ esmif_model' = Some(m)
         /\ esmif_alphabet' = Some(a)
         /\ loaded' = Some([model |-> m, alphabet |-> a])
    /\ pc' = "eval"
    /\ active' = active \ {LOADER}
    /\ trace' = Append(trace, ReturnEvent(LOADER))
    /\ UNCHANGED <<cuda_available, sys_path, device, pdb_path, target_seq_list,
                   output_path, redisigned_residues, batch_num, entropy, loss,
                   perplexity, out, error, files_written, pdb_version, sampled>>

LoadRaise ==
    /\ pc = "load_wait"
    /\ \E e \in LoadErrors : Propagate(LOADER, e)
    /\ CallFrame

EvalForgotten ==
    /\ pc = "eval"
    /\ pc' = "to"
    /\ UNCHANGED <<active, trace, cuda_available, sys_path, device, esmif_model,
                   esmif_alphabet, loaded, pdb_path, target_seq_list,
                   output_path, redisigned_residues, batch_num, entropy, loss,
                   perplexity, out, error, files_written, pdb_version, sampled>>

\* line 29: esmif_model.eval() switches the module to evaluation mode in place
Eval ==
    /\ pc = "eval"
    /\ esmif_model' = Some([Val(esmif_model) EXCEPT !.training = FALSE])
    /\ pc' = "to"
    /\ UNCHANGED <<active, trace, cuda_available, sys_path, device,
                   esmif_alphabet, loaded, pdb_path, target_seq_list,
                   output_path, redisigned_residues, batch_num, entropy, loss,
                   perplexity, out, error, files_written, pdb_version, sampled>>

\* line 29: .to(device) is entered
ToCall ==
    /\ pc = "to"
    /\ pc' = "to_wait"
    /\ active' = active \cup {TO}
    /\ trace' = Append(trace, CallEvent(TO, [device |-> Val(device)]))
    /\ UNCHANGED error
    /\ CallFrame

\* line 29: .to(device) returns the module, now on the device; the result is
\* bound to esmif_model.  End of cell 1.
ToReturn ==
    /\ pc = "to_wait"
    /\ esmif_model' = Some([Val(esmif_model) EXCEPT !.device = Val(device)])
    /\ pc' = "pdb_path"
    /\ active' = active \ {TO}
    /\ trace' = Append(trace, ReturnEvent(TO))
    /\ UNCHANGED <<cuda_available, sys_path, device, esmif_alphabet, loaded,
                   pdb_path, target_seq_list, output_path, redisigned_residues,
                   batch_num, entropy, loss, perplexity, out, error,
                   files_written, pdb_version, sampled>>

ToRaise ==
    /\ pc = "to_wait"
    /\ \E e \in ToErrors : Propagate(TO, e)
    /\ CallFrame

\* ------------------------------------------------------------- cell 2
\* line 38
AssignPdbPath ==
    /\ pc = "pdb_path"
    /\ pdb_path' = Some(PDB_PATH)
    /\ pc' = "target_seq_list"
    /\ UNCHANGED <<active, trace, cuda_available, sys_path, device, esmif_model,
                   esmif_alphabet, loaded, target_seq_list, output_path,
                   redisigned_residues, batch_num, entropy, loss, perplexity,
                   out, error, files_written, pdb_version, sampled>>

\* lines 39-48
AssignTargetSeqList ==
    /\ pc = "target_seq_list"
    /\ target_seq_list' = Some(TARGET_SEQ_LIST)
    /\ pc' = "score"
    /\ UNCHANGED <<active, trace, cuda_available, sys_path, device, esmif_model,
                   esmif_alphabet, loaded, pdb_path, output_path,
                   redisigned_residues, batch_num, entropy, loss, perplexity,
                   out, error, files_written, pdb_version, sampled>>

ScoreArgsOtherStructure ==
    [model |-> Val(esmif_model),
     alphabet |-> Val(esmif_alphabet),
     pdb_path |-> PDB_PATH_3,
     target_seq_list |-> Val(target_seq_list)]

\* lines 50-53: the arguments of the score_complex call
ScoreArgs ==
    [model |-> Val(esmif_model),
     alphabet |-> Val(esmif_alphabet),
     pdb_path |-> Val(pdb_path),
     target_seq_list |-> Val(target_seq_list)]

\* lines 49-54: score_complex is entered
ScoreCall ==
    /\ pc = "score"
    /\ pc' = "score_wait"
    /\ active' = active \cup {SCORE}
    /\ trace' = Append(trace, CallEvent(SCORE, ScoreArgs))
    /\ UNCHANGED error
    /\ CallFrame

\* score_complex (models/score_esmif.py), whose source is not in the notebook:
\* it reads the structure and returns an entropy tensor, a loss scalar and a
\* perplexity scalar; it writes no file and leaves the model's weights alone.
ScoreShapes(seqs) ==
    {<<Len(seqs)>>, <<Len(seqs[1])>>, <<Len(seqs), Len(seqs[1])>>}

ScoreResults(args) ==
    {<<[shape |-> s, data |-> d], l, p>> :
        s \in ScoreShapes(args.target_seq_list),
        d \in TensorData, l \in Scalars, p \in Scalars}

\* score_complex, as documented: the frozen model is only
\* forwarded through, the structure file is only read, nothing is written.
ScoreSideEffects == UNCHANGED <<esmif_model, files_written, pdb_version>>

\* line 49: the returned triple is unpacked into entropy, loss, perplexity
ScoreReturn ==
    /\ pc = "score_wait"
    /\ \E r \in ScoreResults(ScoreArgs) :
         /\ entropy' = Some(r[1])
         /\ loss' = Some(r[2])
         /\ perplexity' = Some(r[3])
    /\ pc' = "output"
    /\ active' = active \ {SCORE}
    /\ trace' = Append(trace, ReturnEvent(SCORE))
    /\ ScoreSideEffects
    /\ UNCHANGED <<cuda_available, sys_path, device, esmif_alphabet, loaded,
                   pdb_path, target_seq_list, output_path, redisigned_residues,
                   batch_num, out, error, sampled>>

ScoreRaiseRetry ==
    /\ pc = "score_wait"
    /\ \E e \in ScoreErrors :
         /\ pc' = "score"
         /\ active' = active \ {SCORE}
         /\ trace' = Append(trace, RaiseEvent(SCORE, e))
         /\ UNCHANGED error
    /\ CallFrame

ScoreRaise ==
    /\ pc = "score_wait"
    /\ \E e \in ScoreErrors : Propagate(SCORE, e)
    /\ CallFrame

OutputValueNoPerplexity(e, l, p) == <<e.shape, l>>

\* line 55: entropy.shape, loss, perplexity
OutputValue(e, l, p) == <<e.shape, l, p>>

OutputThenScoreAgain ==
    /\ pc = "output"
    /\ out' = Some(OutputValue(Val(entropy), Val(loss), Val(perplexity)))
    /\ pc' = "score"
    /\ UNCHANGED <<active, trace, cuda_available, sys_path, device, esmif_model,
                   esmif_alphabet, loaded, pdb_path, target_seq_list,
                   output_path, redisigned_residues, batch_num, entropy, loss,
                   perplexity, error, files_written, pdb_version, sampled>>

\* line 55: the value of the cell's last expression is displayed.  End of cell 2.
Output ==
    /\ pc = "output"
    /\ out' = Some(OutputValue(Val(entropy), Val(loss), Val(perplexity)))
    /\ pc' = "cell3"
    /\ UNCHANGED <<active, trace, cuda_available, sys_path, device, esmif_model,
                   esmif_alphabet, loaded, pdb_path, target_seq_list,
                   output_path, redisigned_residues, batch_num, entropy, loss,
                   perplexity, error, files_written, pdb_version, sampled>>

\* ------------------------------------------------------------- cell 3
\* lines 69-81 with the comment marks removed: the arguments of one
\* sample_complex call, read from the names as the step leaves them
SampleArgs(offset) ==
    [model |-> Val(esmif_model),
     alphabet |-> Val(esmif_alphabet),
     pdb_path |-> Val(pdb_path'),
     output_path |-> Val(output_path'),
     target_chain_id |-> "A",
     batch_size |-> BatchSize,
     redesigned_residues |-> Val(redisigned_residues'),
     omit_aa |-> "C",
     temperature |-> 1,
     padding_length |-> 10,
     index_offset |-> offset]

Cell3Uncommented ==
    /\ pc = "cell3"
    /\ pdb_path' = Some(PDB_PATH_3)
    /\ output_path' = Some(OUTPUT_PATH)
    /\ redisigned_residues' = Some(REDISIGNED_RESIDUES)
    /\ batch_num' = Some(0)
    /\ sampled' = Append(sampled, <<SampleArgs(0).index_offset, SampleArgs(0).batch_size>>)
    /\ files_written' = files_written \cup {OUTPUT_PATH}
    /\ pc' = "done"
    /\ UNCHANGED <<active, trace, cuda_available, sys_path, device, esmif_model,
                   esmif_alphabet, loaded, target_seq_list, entropy, loss,
                   perplexity, out, error, pdb_version>>

\* lines 64-81: every line of the cell is a comment, so running it does
\* nothing.  End of the notebook.
Cell3 ==
    /\ pc = "cell3"
    /\ pc' = "done"
    /\ UNCHANGED <<active, trace, cuda_available, sys_path, device, esmif_model,
                   esmif_alphabet, loaded, pdb_path, target_seq_list,
                   output_path, redisigned_residues, batch_num, entropy, loss,
                   perplexity, out, error, files_written, pdb_version, sampled>>

Next ==
    \/ Imports
    \/ SelectDevice
    \/ LoadCall
    \/ LoadReturn
    \/ LoadRaise
    \/ Eval
    \/ ToCall
    \/ ToReturn
    \/ ToRaise
    \/ AssignPdbPath
    \/ AssignTargetSeqList
    \/ ScoreCall
    \/ ScoreReturn
    \/ ScoreRaise
    \/ Output
    \/ Cell3

Spec == Init /\ [][Next]_vars

\* ------------------------------------- cell 3 with its comment marks removed
\* The notebook after cells 1 and 2 have run, about to run cell 3.
SampleInit ==
    LET m0 == [weights |-> 1, training |-> TRUE, device |-> "cpu"]
        m1 == [weights |-> 1, training |-> FALSE, device |-> DeviceFor(cuda_available)]
        e == [shape |-> <<Len(TARGET_SEQ_LIST), Len(TARGET_SEQ_LIST[1])>>, data |-> 1]
    IN
    /\ pc = "cell3"
    /\ active = {}
    /\ cuda_available \in BOOLEAN
    /\ sys_path = <<"..">>
    /\ device = Some(DeviceFor(cuda_available))
    /\ esmif_model = Some(m1)
    /\ esmif_alphabet = Some(1)
    /\ loaded = Some([model |-> m0, alphabet |-> 1])
    /\ pdb_path = Some(PDB_PATH)
    /\ target_seq_list = Some(TARGET_SEQ_LIST)
    /\ output_path = None
    /\ redisigned_residues = None
    /\ batch_num = None
    /\ entropy = Some(e)
    /\ loss = Some(1)
    /\ perplexity = Some(1)
    /\ out = Some(OutputValue(e, 1, 1))
    /\ error = None
    /\ files_written = {}
    /\ pdb_version = [p \in {PDB_PATH, PDB_PATH_3} |-> 0]
    /\ sampled = <<>>
    /\ trace = << CallEvent(LOADER, <<>>), ReturnEvent(LOADER),
                  CallEvent(TO, [device |-> DeviceFor(cuda_available)]),
                  ReturnEvent(TO),
                  CallEvent(SCORE, [model |-> m1, alphabet |-> 1,
                                    pdb_path |-> PDB_PATH,
                                    target_seq_list |-> TARGET_SEQ_LIST]),
                  ReturnEvent(SCORE) >>

\* lines 64-66: three assignments
Cell3Assignments ==
    /\ pc = "cell3"
    /\ pdb_path' = Some(PDB_PATH_3)
    /\ output_path' = Some(OUTPUT_PATH)
    /\ redisigned_residues' = Some(REDISIGNED_RESIDUES)
    /\ pc' = "for"
    /\ UNCHANGED <<active, trace, cuda_available, sys_path, device, esmif_model,
                   esmif_alphabet, loaded, target_seq_list, batch_num, entropy,
                   loss, perplexity, out, error, files_written, pdb_version, sampled>>

\* line 68: the value range(2048) yields after the current batch_num
NextBatch == IF batch_num = None THEN 0 ELSE Val(batch_num) + 1

\* line 68: range(2048) is exhausted; the loop, the cell and the notebook end
ForEnd ==
    /\ pc = "for"
    /\ ~(NextBatch < NumBatches)
    /\ pc' = "done"
    /\ UNCHANGED <<active, trace, cuda_available, sys_path, device, esmif_model,
                   esmif_alphabet, loaded, pdb_path, target_seq_list,
                   output_path, redisigned_residues, batch_num, entropy, loss,
                   perplexity, out, error, files_written, pdb_version, sampled>>

IndexOffsetUnscaled(n) == n

\* line 80: index_offset=batch_num * 32
IndexOffset(n) == n * OffsetStride

\* what the history keeps of one sample_complex call
IndexRange(args) == <<args.index_offset, args.batch_size>>

\* lines 68-81: batch_num takes the next value of range(2048) and
\* sample_complex is entered with it
SampleCall ==
    /\ pc = "for"
    /\ NextBatch < NumBatches
    /\ batch_num' = Some(NextBatch)
    /\ pc' = "sample_wait"
    /\ active' = active \cup {SAMPLE}
    /\ UNCHANGED <<trace, cuda_available, sys_path, device, esmif_model,
                   esmif_alphabet, loaded, pdb_path, target_seq_list,
                   output_path, redisigned_residues, entropy, loss,
                   perplexity, out, error, files_written, pdb_version>>
    /\ sampled' = Append(sampled, IndexRange(SampleArgs(IndexOffset(Val(batch_num')))))

\* sample_complex (models/sample_esmif.py): it writes the sampled sequences
\* to output_path, and leaves the model and the structure file alone.
SampleSideEffects ==
    /\ files_written' = files_written \cup {Val(output_path)}
    /\ UNCHANGED <<esmif_model, pdb_version>>

\* lines 69-81: the call returns; the loop uses no result of it and goes
\* back to line 68
SampleReturn ==
    /\ pc = "sample_wait"
    /\ pc' = "for"
    /\ active' = active \ {SAMPLE}
    /\ SampleSideEffects
    /\ UNCHANGED <<trace, cuda_available, sys_path, device, esmif_alphabet,
                   loaded, pdb_path, target_seq_list, output_path,
                   redisigned_residues, batch_num, entropy, loss, perplexity,
                   out, error, sampled>>

SampleRaise ==
    /\ pc = "sample_wait"
    /\ \E e \in SampleErrors : Propagate(SAMPLE, e)
    /\ CallFrame

SampleNext ==
    \/ Cell3Assignments
    \/ SampleCall
    \/ SampleReturn
    \/ SampleRaise
    \/ ForEnd

SampleSpec == SampleInit /\ [][SampleNext]_vars

\* ------------------------------------------------------ reading the history
IsCallOf(fn, e) == e.ev = "call" /\ e.fn = fn
CallsOf(fn) == {i \in DOMAIN trace : IsCallOf(fn, trace[i])}
IsReturnOf(fn, e) == e.ev = "return" /\ e.fn = fn
IsRaise(e) == e.ev = "raise"
Raises == {i \in DOMAIN trace : IsRaise(trace[i])}
AfterCell1 == {"pdb_path", "target_seq_list", "score", "score_wait", "output",
               "cell3", "done"}
AfterScore == {"output", "cell3", "done"}
Waiting == {"load_wait", "to_wait", "score_wait"}
Callee(p) ==
    CASE p = "load_wait" -> LOADER
      [] p = "to_wait" -> TO
      [] p = "score_wait" -> SCORE
      [] p = "sample_wait" -> SAMPLE

\* ------------------------------------------------------------------ claims

\* C1: the steps run in a fixed order. score_complex is called at most once in
\* any run and exactly once in a run that gets past it; whenever it is called,
\* the loader and then eval().to(device) have already returned, in that order,
\* and nothing else is in progress; sample_complex is never called.
C1_FixedOrder ==
    /\ Cardinality(CallsOf(SCORE)) <= 1
    /\ pc \in AfterScore => Cardinality(CallsOf(SCORE)) = 1
    /\ sampled = <<>>
    /\ \A i \in CallsOf(SCORE) :
         /\ \E j \in 1..(i-1), k \in 1..(i-1) :
              /\ j < k
              /\ IsReturnOf(LOADER, trace[j])
              /\ IsReturnOf(TO, trace[k])
         /\ trace[i].args.model.training = FALSE
         /\ trace[i].args.model.device = Val(device)
         /\ active \subseteq {SCORE}

C1_Witness == pc = "done" /\ Cardinality(CallsOf(SCORE)) = 1

\* C2: once score_complex has returned, entropy, loss and perplexity are bound
\* (and not before); what cell 2 displays is exactly the triple (shape of
\* entropy, loss, perplexity), and it is displayed in every run that gets
\* past the output expression.
C2_OutputTriple ==
    /\ (\E i \in DOMAIN trace : IsReturnOf(SCORE, trace[i]))
         <=> (entropy # None /\ loss # None /\ perplexity # None)
    /\ (entropy = None) = (loss = None)
    /\ (loss = None) = (perplexity = None)
    /\ out # None =>
         /\ Len(Val(out)) = 3
         /\ Val(out)[1] = Val(entropy).shape
         /\ Val(out)[2] = Val(loss)
         /\ Val(out)[3] = Val(perplexity)
    /\ (out # None) <=> pc \in {"cell3", "done"}

C2_Witness ==
    /\ pc = "done"
    /\ out # None
    /\ Val(entropy).data = 2
    /\ Val(loss) # Val(perplexity)

\* C3: an exception raised by an external call ends the run at once: it is the
\* last event of the run, the run is in the error state holding exactly that
\* exception, the failed call was made once, no step is enabled any more and
\* nothing has been displayed.
C3_FailurePropagates ==
    /\ Cardinality(Raises) <= 1
    /\ \A i \in Raises :
         /\ i = Len(trace)
         /\ pc = "error"
         /\ error = Some([step |-> trace[i].fn, exc |-> trace[i].exc])
         /\ Cardinality(CallsOf(trace[i].fn)) = 1
         /\ active = {}
    /\ pc = "error" =>
         /\ error # None
         /\ out = None
         /\ ~ ENABLED Next
    /\ error # None => pc = "error"

C3_Witness ==
    /\ pc = "error"
    /\ Raises # {}
    /\ Val(error) = [step |-> SCORE, exc |-> "FileNotFoundError"]

\* C4: at most one external call is in progress; while one is, the notebook
\* is waiting at that very call; and every call that is over was ended by its
\* own return or raise, which directly follows it in the history.
C4_Synchronous ==
    /\ Cardinality(active) <= 1
    /\ active # {} => pc \in Waiting
    /\ pc \in Waiting => active = {Callee(pc)}
    /\ \A i \in DOMAIN trace :
         IF trace[i].ev = "call"
           THEN \/ i = Len(trace) /\ active = {trace[i].fn}
                \/ /\ i < Len(trace)
                   /\ trace[i+1].ev \in {"return", "raise"}
                   /\ trace[i+1].fn = trace[i].fn
           ELSE /\ trace[i].ev \in {"return", "raise"}
                /\ i > 1
                /\ IsCallOf(trace[i].fn, trace[i-1])

C4_Witness == pc = "score_wait" /\ active = {SCORE} /\ Len(trace) = 5

\* C5: the run writes no file, never binds output_path, and leaves the
\* structure files as they were.
C5_NothingPersisted ==
    /\ files_written = {}
    /\ output_path = None
    /\ \A p \in DOMAIN pdb_version : pdb_version[p] = 0

C5_Witness ==
    /\ pc = "done"
    /\ \E i \in DOMAIN trace : IsReturnOf(SCORE, trace[i])

\* C6: the model handed to score_complex is in evaluation mode, and at every
\* point of the run the model's weights are the ones the loader returned.
C6_Frozen ==
    /\ \A i \in CallsOf(SCORE) : trace[i].args.model.training = FALSE
    /\ esmif_model # None =>
         Val(esmif_model).weights = Val(loaded).model.weights
    /\ pc \in AfterCell1 => Val(esmif_model).training = FALSE

C6_Witness ==
    /\ pc = "done"
    /\ Val(loaded).model.training = TRUE
    /\ Val(esmif_model).weights = 2

\* C7: the score_complex call receives the loader's model as eval().to(device)
\* left it, the loader's alphabet, the fixed structure path and the eight
\* literal sequences; from the end of cell 1 (for the two loader names) and
\* from their assignment (for pdb_path and target_seq_list) the four names
\* keep their values.
C7_ScoreArguments ==
    /\ \A i \in CallsOf(SCORE) :
         /\ trace[i].args.model =
              [Val(loaded).model EXCEPT !.training = FALSE, !.device = Val(device)]
         /\ trace[i].args.alphabet = Val(loaded).alphabet
         /\ trace[i].args.pdb_path = "../pdbs/NbALFA_ALFAtag_AF3.pdb"
         /\ Len(trace[i].args.target_seq_list) = 8
         /\ trace[i].args.target_seq_list = TARGET_SEQ_LIST
    /\ pc \in AfterCell1 =>
         /\ esmif_model =
              Some([Val(loaded).model EXCEPT !.training = FALSE, !.device = Val(device)])
         /\ esmif_alphabet = Some(Val(loaded).alphabet)
    /\ pdb_path # None => pdb_path = Some("../pdbs/NbALFA_ALFAtag_AF3.pdb")
    /\ target_seq_list # None => target_seq_list = Some(TARGET_SEQ_LIST)

C7_Witness ==
    /\ pc = "score_wait"
    /\ CallsOf(SCORE) # {}
    /\ Val(loaded).alphabet = 2

\* C8: the device is chosen before the loader is called, as "cuda" exactly
\* when CUDA is available; .to() is called with it and the model ends up on
\* it; the choice stands for the rest of the run, failures included.
C8_DeviceChosenOnce ==
    /\ device # None =>
         /\ cuda_available => Val(device) = "cuda"
         /\ ~cuda_available => Val(device) = "cpu"
    /\ CallsOf(LOADER) # {} => device # None
    /\ \A i \in CallsOf(TO) : trace[i].args.device = Val(device)
    /\ pc \in AfterCell1 => Val(esmif_model).device = Val(device)
    /\ (device = None) <=> pc \in {"imports", "device"} \/ (pc = "error" /\ trace = <<>>)

C8_Witness ==
    /\ pc = "error"
    /\ cuda_available
    /\ device = Some("cuda")
    /\ Val(error).step = TO

\* C9: the list handed to score_complex has eight entries of 124 residues
\* each; entries 1 and 6 are equal and there are seven distinct entries.
C9_SequenceList ==
    /\ \A i \in CallsOf(SCORE) :
         LET l == trace[i].args.target_seq_list IN
         /\ Len(l) = 8
         /\ \A k \in DOMAIN l : Len(l[k]) = 124
         /\ l[1] = l[6]
         /\ Cardinality({l[k] : k \in DOMAIN l}) = 7
    /\ target_seq_list # None =>
         /\ \A k \in DOMAIN Val(target_seq_list) : Len(Val(target_seq_list)[k]) = 124
         /\ Cardinality({Val(target_seq_list)[k] : k \in DOMAIN Val(target_seq_list)}) = 7

C9_Witness == CallsOf(SCORE) # {} /\ pc = "done"

\* the index range [index_offset, index_offset + batch_size) of one call
Lo(c) == c[1]
Hi(c) == c[1] + c[2]
Indices(c) == Lo(c)..(Hi(c) - 1)
Disjoint(c, d) == Hi(c) <= Lo(d) \/ Hi(d) <= Lo(c)

\* C10: in the sampling loop every call's index range is disjoint from the
\* range of every earlier call, starts where the previous call's range ends
\* and at a larger index_offset than it; the first range starts at 0; and
\* when the loop has run to its end there were 2048 calls whose ranges are
\* pairwise disjoint and together are exactly 0..65535.
C10_SampleRanges ==
    LET calls == sampled
        n == Len(calls)
    IN
    /\ n > 0 =>
         /\ Lo(calls[1]) = 0
         /\ \A i \in 1..(n-1) : Disjoint(calls[i], calls[n])
         /\ n > 1 =>
              /\ Lo(calls[n]) = Hi(calls[n-1])
              /\ Lo(calls[n]) > Lo(calls[n-1])
    /\ pc = "done" =>
         /\ n = 2048
         /\ \A i \in 1..n : \A j \in (i+1)..n : Disjoint(calls[i], calls[j])
         /\ \A i \in 1..(n-1) : Lo(calls[i+1]) = Hi(calls[i])
         /\ UNION {Indices(calls[i]) : i \in 1..n} = 0..65535
         /\ \A i \in 1..n : Hi(calls[i]) - Lo(calls[i]) = 32

C10_Witness ==
    /\ pc = "done"
    /\ Len(sampled) = 2048
    /\ Lo(sampled[2048]) = 65504

=============================================================================
